---- MODULE Spec2Model ----
(***************************************************************************)
(* Psychrometric property engine of air_psicro (src/psychrometrics.py).    *)
(*                                                                         *)
(* Every float of the program is modelled as a decimal fixed-point number: *)
(* the integer n stands for the real n / SCALE.  Products and quotients    *)
(* are computed exactly on integers (MulDiv) and rounded to the nearest    *)
(* unit, so the model follows the real-valued arithmetic of the code to    *)
(* about 1e-5; np.log and np.exp are evaluated by range reduction and      *)
(* power series at the finer scale FINE.  Where the program's result is    *)
(* the float quotient of equal quantities (100 * p_v / p_ws), the last     *)
(* place of the binary64 result is an input of the operation.              *)
(***************************************************************************)
EXTENDS Integers, Sequences, FiniteSets, TLC

\* ------------------------------------------------------------------------
\* Fixed-point arithmetic
\* ------------------------------------------------------------------------

\* units per 1.0 of every modelled float
SCALE == 10 ^ 5
\* units per 1.0 inside Ln and Exp
FINE == 10 ^ 7
\* FINE \div SCALE
FINE_PER_SCALE == FINE \div SCALE

Abs(x) == IF x < 0 THEN 0 - x ELSE x
Sign(x) == IF x < 0 THEN 0 - 1 ELSE IF x > 0 THEN 1 ELSE 0
Max(a, b) == IF a >= b THEN a ELSE b
Min(a, b) == IF a <= b THEN a ELSE b

\* the digit base of the long multiplication for a divisor 0 < c < 2^29:
\* the largest power of two with 2 * base * c at most 2^31
DigitBase(c) ==
    2 ^ (30 - (CHOOSE k \in 1..29 : 2 ^ (k - 1) <= c /\ c < 2 ^ k))

\* one digit d of b: from h = <<q, r>> for the higher digits to <<q, r>> for
\* the number with d appended; qa and ra are the quotient and remainder of a
\* by c
Combine[h \in Int \X Int, qa \in Int, ra \in Int, d \in Int, c \in Int, B \in Int] ==
    LET r == B * h[2] + d * ra
    IN  <<B * h[1] + d * qa + (r \div c), r % c>>

\* <<q, r>> with a * b = q * c + r and 0 <= r < c, for a = qa * c + ra,
\* b >= 0 and 0 < c < 2^29, without forming the product a * b
MulDivQR[qa \in Int, ra \in Int, b \in Int, c \in Int, B \in Int] ==
    IF b = 0 THEN <<0, 0>>
    ELSE Combine[MulDivQR[qa, ra, b \div B, c, B], qa, ra, b % B, c, B]

\* the quotient of qr = <<q, r>> rounded to the nearest integer, half up
RoundQR[qr \in Int \X Int, c \in Int] ==
    IF 2 * qr[2] >= c THEN qr[1] + 1 ELSE qr[1]

\* a * b / c rounded to the nearest integer (half away from zero), for
\* a, b >= 0 and 0 < c < 2^29; the digits are those of the smaller factor
MulDivNat(a, b, c) ==
    RoundQR[MulDivQR[Max(a, b) \div c, Max(a, b) % c, Min(a, b), c,
                     DigitBase(c)], c]

\* a * b / c rounded to the nearest integer (half away from zero), c # 0,
\* as a function: its three arguments are values before the long
\* multiplication starts
MulDivInt[a \in Int, b \in Int, c \in Int] ==
    IF a = 0 \/ b = 0 THEN 0 \div Abs(c)
    ELSE Sign(a) * Sign(b) * Sign(c) * MulDivNat(Abs(a), Abs(b), Abs(c))

MulDiv(a, b, c) == MulDivInt[a, b, c]

\* float product x * y
Mul(x, y) == MulDiv(x, y, SCALE)
\* float quotient x / y, y # 0
Div(x, y) == MulDiv(x, SCALE, y)

\* ln 2 = 0.69314718... at scale FINE, rounded
LN2_FINE == (69314718 + 5) \div 10

\* the exponent k with 2^k <= x / SCALE < 2^(k+1), for x > 0
Log2Floor(x) ==
    IF x >= SCALE THEN CHOOSE k \in 0..14 : (x \div (2 ^ k)) \in SCALE..(2 * SCALE - 1)
    ELSE 0 - (CHOOSE k \in 1..17 : x * (2 ^ k) >= SCALE)

\* the series z^n / n + z^(n+2) / (n+2) + ... from its term p = z^n, with
\* zz = z * z < 1 at scale FINE; it ends at the first term that rounds to 0
AtanhTail[p \in Int, zz \in Int, n \in Int] ==
    IF p = 0 THEN 0
    ELSE (p \div n) + AtanhTail[MulDiv(p, zz, FINE), zz, n + 2]

\* atanh(z) = z + z^3 / 3 + z^5 / 5 + ..., for z at scale FINE with
\* 0 <= z <= 1/3
AtanhSeries(z) == AtanhTail[z, MulDiv(z, z, FINE), 1]

\* ln(m / FINE) at scale FINE for FINE <= m < 2 * FINE:
\* ln m = 2 * atanh((m - 1) / (m + 1))
LnMantissa(m) == 2 * AtanhSeries(MulDiv(m - FINE, FINE, m + FINE))

\* ln x = k ln 2 + ln m for x = m * 2^k with 1 <= m < 2
LnParts(x, k) ==
    MulDiv(k * LN2_FINE
             + LnMantissa(IF k >= 0 THEN MulDiv(x, FINE_PER_SCALE, 2 ^ k)
                          ELSE x * FINE_PER_SCALE * (2 ^ (0 - k))),
           1, FINE_PER_SCALE)

\* np.log(x) for x > 0
Ln(x) == LnParts(x, Log2Floor(x))

\* the series r^n / n! + r^(n+1) / (n+1)! + ... from its term t = r^n / n!,
\* for |r| < 1 at scale FINE; it ends at the first term that rounds to 0
ExpTail[t \in Int, r \in Int, n \in Int] ==
    IF t = 0 THEN 0
    ELSE t + ExpTail[MulDiv(t, r, (n + 1) * FINE), r, n + 1]

\* exp(r) = 1 + r + r^2 / 2! + ..., for r at scale FINE with |r| <= ln(2) / 2
ExpSeries(r) == FINE + ExpTail[r, r, 1]

\* m * 2^k / d
ScaleByPow2(m, k, d) ==
    IF k >= 0 THEN MulDiv(m, 2 ^ k, d)
    ELSE MulDiv(MulDiv(m, 1, 2 ^ (0 - k)), 1, d)

\* exp(xf / FINE) / den for xf = k ln 2 + r: exp = 2^k * exp r
ExpParts(xf, k, den) ==
    ScaleByPow2(ExpSeries(xf - k * LN2_FINE), k, FINE_PER_SCALE * den)

\* np.exp(x) / den for an integer den >= 1, with k the multiple of ln 2
\* nearest to x.  The division by den is folded in so that the intermediate
\* 2^k * exp r never has to be held at scale SCALE.  Below x = -14 the result
\* is under half a unit of SCALE and rounds to 0.
ExpOverInt[x \in Int, den \in Int] ==
    IF x < 0 - 14 * SCALE THEN 0
    ELSE ExpParts(x * FINE_PER_SCALE,
                  (2 * x * FINE_PER_SCALE + LN2_FINE) \div (2 * LN2_FINE), den)

ExpOver(x, den) == ExpOverInt[x, den]

\* np.exp(x)
Exp(x) == ExpOver(x, 1)

\* ------------------------------------------------------------------------
\* Constants of src/psychrometrics.py
\* ------------------------------------------------------------------------

\* P_std = 101.325 kPa
P_std == 10132500
\* T_0 = 273.15 K
T_0 == 27315000

\* ------------------------------------------------------------------------
\* calculate_atmospheric_pressure
\* ------------------------------------------------------------------------

\* An altitude argument is one of
\*   [kind |-> "num", m |-> metres]       an int or float
\*   [kind |-> "numstr", m |-> metres]    a string float() parses
\*   [kind |-> "str"]                     a string float() rejects (ValueError)
\*   [kind |-> "none"]                    None (TypeError)
\* float(altitude): ok is FALSE when float() raises ValueError or TypeError
float_of(altitude) ==
    IF altitude.kind \in {"num", "numstr"} THEN [ok |-> TRUE, m |-> altitude.m]
    ELSE [ok |-> FALSE, m |-> 0]

\* Python's base ** 5.2559 on floats: a negative base with a non-integer
\* exponent gives a complex number, a zero base gives 0.0, a positive base
\* gives exp(5.2559 * ln base)
pow_5_2559(base) ==
    IF base < 0 THEN [kind |-> "complex", v |-> 0]
    ELSE IF base = 0 THEN [kind |-> "float", v |-> 0]
    ELSE [kind |-> "float", v |-> Exp(MulDiv(Ln(base), 525590, SCALE))]

\* 1 - 2.25577e-5 * altitude_value, altitude in metres
barometric_base(m) == SCALE - MulDiv(m, 225577, 100000)

\* P_std * pw: a complex power stays complex
barometric_pressure(pw) ==
    IF pw.kind = "complex" THEN pw
    ELSE [kind |-> "float", v |-> Mul(P_std, pw.v)]

\* clamp_pressure with the lower limit taken as 60 % of P_std
clamp_pressure_floor60(p) ==
    IF p.kind = "complex" THEN [raised |-> TRUE, v |-> 0]
    ELSE [raised |-> FALSE,
          v |-> Max(Mul(P_std, 60000), Min(p.v, Mul(P_std, 110000)))]

\* max(P_std * 0.1, min(p_atm, P_std * 1.1)): ordering a complex number
\* against a float raises TypeError
clamp_pressure(p) ==
    IF p.kind = "complex" THEN [raised |-> TRUE, v |-> 0]
    ELSE [raised |-> FALSE,
          v |-> Max(Mul(P_std, 10000), Min(p.v, Mul(P_std, 110000)))]

\* calculate_atmospheric_pressure catching ValueError only: the TypeError of
\* float(None) leaves the function
calculate_atmospheric_pressure_value_error_only(altitude) ==
    IF ~float_of(altitude).ok
    THEN (IF altitude.kind = "none" THEN [raised |-> TRUE, v |-> 0]
          ELSE [raised |-> FALSE, v |-> P_std])
    ELSE clamp_pressure(
           barometric_pressure(
             pow_5_2559(barometric_base(float_of(altitude).m))))

\* calculate_atmospheric_pressure(altitude): raised is TRUE when an exception
\* leaves the function, v is the returned pressure otherwise
calculate_atmospheric_pressure(altitude) ==
    IF ~float_of(altitude).ok THEN [raised |-> FALSE, v |-> P_std]
    ELSE clamp_pressure(
           barometric_pressure(
             pow_5_2559(barometric_base(float_of(altitude).m))))

\* ------------------------------------------------------------------------
\* saturation_vapor_pressure and the closed-form conversions
\* ------------------------------------------------------------------------

\* T ** 2 in units of 1e-3, T ** 3 in units of 0.1, T ** 4 in units of 10
\* (T in Kelvin at SCALE); the powers of T exceed the range of SCALE
T_pow2(T) == MulDiv(T, T, 10000000)
T_pow3(T) == MulDiv(T_pow2(T), T, 10000000)
T_pow4(T) == MulDiv(T_pow2(T), T_pow2(T), 10000000)

\* x * (mant / 10^7) / div: a coefficient with seven decimal places of
\* mantissa applied to x, then the power of ten that brings the product to
\* SCALE
Coef(x, mant, div) == MulDiv(MulDiv(x, mant, 10000000), 1, div)

\* ln(p_ws in Pa) for t >= 0:
\* -5.8002206e3 / T + 1.3914993 - 4.8640239e-2 * T + 4.1764768e-5 * T**2
\*   - 1.4452093e-8 * T**3 + 6.5459673 * np.log(T)
log_p_ws_liquid(T) ==
    0 - MulDiv(580022060, SCALE, T) + 139150
      - Coef(T, 4864024, 10)
      + Coef(T_pow2(T), 4176477, 100)
      - Coef(T_pow3(T), 1445209, 1000)
      + MulDiv(Ln(T), 65459673, 10000000)

\* the ice correlation with 6.4925247 for 6.3925247
log_p_ws_ice_high_constant(T) ==
    0 - MulDiv(567453590, SCALE, T) + 649252
      - Coef(T, 9677843, 100)
      + Coef(T_pow2(T), 6221570, 10000)
      + Coef(T_pow3(T), 2074783, 10000)
      - Coef(T_pow4(T), 9484024, 1000000)
      + MulDiv(Ln(T), 41635019, 10000000)

\* ln(p_ws in Pa) for t < 0:
\* -5.6745359e3 / T + 6.3925247 - 9.677843e-3 * T + 6.2215701e-7 * T**2
\*   + 2.0747825e-9 * T**3 - 9.484024e-13 * T**4 + 4.1635019 * np.log(T)
log_p_ws_ice(T) ==
    0 - MulDiv(567453590, SCALE, T) + 639252
      - Coef(T, 9677843, 100)
      + Coef(T_pow2(T), 6221570, 10000)
      + Coef(T_pow3(T), 2074783, 10000)
      - Coef(T_pow4(T), 9484024, 1000000)
      + MulDiv(Ln(T), 41635019, 10000000)

\* saturation_vapor_pressure(t) in kPa, for t + T_0 > 0
saturation_vapor_pressure(t) ==
    ExpOver(IF t >= 0 THEN log_p_ws_liquid(t + T_0)
            ELSE log_p_ws_ice(t + T_0), 1000)

\* saturation_vapor_pressure(t) raises ZeroDivisionError when T is 0.0
saturation_vapor_pressure_raises(t) == t + T_0 = 0

\* humidity_ratio_from_vapor_pressure dividing by the total pressure p_atm
\* instead of the dry-air partial pressure p_atm - p_v
humidity_ratio_over_total_pressure(p_v, p_atm) ==
    Div(MulDiv(p_v, 62198, SCALE), p_atm)

\* 0.62198 * p_v / (p_atm - p_v), for the values p_v and p_atm
humidity_ratio_of[p_v \in Int, p_atm \in Int] ==
    Div(MulDiv(p_v, 62198, SCALE), p_atm - p_v)

\* humidity_ratio_from_vapor_pressure(p_v, p_atm)
humidity_ratio_from_vapor_pressure(p_v, p_atm) == humidity_ratio_of[p_v, p_atm]

\* p_atm * w / (0.62198 + w)
vapor_pressure_from_humidity_ratio(w, p_atm) ==
    Div(Mul(p_atm, w), 62198 + w)

\* the last place of a float quotient: the real quotient rounded to the
\* nearest float, or one of its two float neighbours
UlpOutcomes == {0 - 1, 0, 1}

\* 100 * p_v / p_ws.  The product 100 * p_v is rounded to a float before the
\* division, so the quotient is the float nearest to the real
\* 100 * p_v / p_ws or one of its neighbours: for p_v = p_ws the code gives
\* 100.0, 99.99999999999999 or 100.00000000000001 according to the low bits
\* of p_v.  Those bits are below the resolution of the model, so the last
\* place is the argument ulp, held one unit of SCALE away.
relative_humidity_from_vapor_pressure(p_v, p_ws, ulp) ==
    Div(100 * p_v, p_ws) + ulp

\* t_dp = (237.7 * gamma) / (17.27 - gamma)
magnus_inverse(gamma) == Div(Mul(23770000, gamma), 1727000 - gamma)

\* dew_point_temperature(p_v): p_v_pa / 611.2 is taken as
\* p_v * 1000000 / 611200 so that p_v * 1000 is never held at SCALE
dew_point_temperature(p_v) ==
    IF p_v < 100 THEN 0 - 20 * SCALE
    ELSE Max(0 - 50 * SCALE,
             Min(magnus_inverse(Ln(MulDiv(p_v, 1000000, 611200))), 60 * SCALE))

\* (R_a * T / (p_atm * 1000)) * (1 + 1.6078 * w), R_a = 287.05; the quotient
\* is taken as (R_a / 100) * T / (p_atm * 10) to stay in range
specific_volume(tbs, w, p_atm) ==
    Mul(MulDiv(287050, tbs + T_0, p_atm * 10),
        SCALE + MulDiv(w, 160780, SCALE))

enthalpy(tbs, w) ==
    MulDiv(tbs, 100600, SCALE) + Mul(w, 250100000 + MulDiv(tbs, 186000, SCALE))

\* ------------------------------------------------------------------------
\* wet_bulb_temperature: one call is a sequence of loop iterations
\* ------------------------------------------------------------------------

\* epsilon = 0.01
epsilon == 1000
max_iterations == 50

\* very_dry with w < 0.0001
very_dry_strict(w) == w < 10

\* w <= 0.0001: the very-dry-air shortcut
very_dry(w) == w <= 10

\* max(-20.0, tbs - 15.0)
dry_air_estimate(tbs) == Max(0 - 20 * SCALE, tbs - 15 * SCALE)

\* tbs - 5.0 if tbs > 10 else tbs * 0.9: the estimate of the except clause
exception_estimate(tbs) ==
    IF tbs > 10 * SCALE THEN tbs - 5 * SCALE ELSE MulDiv(tbs, 90000, SCALE)

\* max(-20.0, min(tbm, tbs))
clamp_tbm(tbm, tbs) == Max(0 - 20 * SCALE, Min(tbm, tbs))

\* h_fg - 4.186 * (tbs - tbm) with h_fg = 2501 - 2.326 * tbm
energy_factor(tbs, tbm) ==
    (250100000 - MulDiv(tbm, 232600, SCALE)) - MulDiv(tbs - tbm, 418600, SCALE)

\* if abs(factor) < 0.001: factor = 0.001 if factor >= 0 else -0.001
guarded_factor(factor) ==
    IF Abs(factor) < 100 THEN (IF factor >= 0 THEN 100 ELSE 0 - 100) ELSE factor

\* energy_balance with the sensible-heat term added instead of subtracted
energy_balance_plus(factor, w_s_tbm, tbs, tbm) ==
    Div(Mul(factor, w_s_tbm) + MulDiv(tbs - tbm, 100600, SCALE), factor)

\* ((factor) * w_s_tbm - c_pa * (tbs - tbm)) / factor with c_pa = 1.006
energy_balance(factor, w_s_tbm, tbs, tbm) ==
    Div(Mul(factor, w_s_tbm) - MulDiv(tbs - tbm, 100600, SCALE), factor)

\* w_calc with the latent heat h_fg taken at tbs instead of tbm
w_calc_at_latent_heat_at_tbs(tbs, tbm, p_atm) ==
    energy_balance(
        guarded_factor(energy_factor(tbs, tbs) - MulDiv(tbs - tbm, 418600, SCALE)),
        humidity_ratio_from_vapor_pressure(saturation_vapor_pressure(tbm), p_atm),
        tbs, tbm)

\* w_calc of one loop iteration at the iterate tbm
w_calc_at(tbs, tbm, p_atm) ==
    energy_balance(
        guarded_factor(energy_factor(tbs, tbm)),
        humidity_ratio_from_vapor_pressure(saturation_vapor_pressure(tbm), p_atm),
        tbs, tbm)

\* abs(w_calc - w) < epsilon
converged(w_calc, w) == Abs(w_calc - w) < epsilon

\* next_tbm with steps of 0.5
next_tbm_half_degree(tbm, w_calc, w, tbs) ==
    clamp_tbm(IF w_calc > w THEN tbm - 50000 ELSE tbm + 50000, tbs)

\* tbm -= 0.05 if w_calc > w else tbm += 0.05, then max(-20.0, min(tbm, tbs))
next_tbm(tbm, w_calc, w, tbs) ==
    clamp_tbm(IF w_calc > w THEN tbm - 5000 ELSE tbm + 5000, tbs)

\* ------------------------------------------------------------------------
\* The three resolvers
\* ------------------------------------------------------------------------

\* same_bulb with the threshold 0.001
same_bulb_narrow(tbs, tbm) == Abs(tbs - tbm) < 100

\* abs(tbs - tbm) < 0.01
same_bulb(tbs, tbm) == Abs(tbs - tbm) < 1000

\* abs(ur - 100.0) < 0.1.  In binary64 the literals 99.9 and 100.1 are both
\* nearer to 100.0 than the literal 0.1 is to 0 (abs(99.9 - 100.0) and
\* abs(100.1 - 100.0) both evaluate to 0.09999999999999432), so the two
\* boundary values pass the test.
near_saturation(ur) == Abs(ur - 100 * SCALE) <= 10000

\* the dict every resolver returns; v and h are computed last from tbs, w
\* and p_atm.  The fields are listed in the order the code computes them.
MoistAirState(tbs, tbm, ur, w, tpo, p_v, p_ws, p_atm) ==
    [p_ws |-> p_ws, p_v |-> p_v, ur |-> ur, w |-> w, tpo |-> tpo,
     tbs |-> tbs, tbm |-> tbm, p_atm |-> p_atm,
     v |-> specific_volume(tbs, w, p_atm), h |-> enthalpy(tbs, w)]

\* the record once p_v, p_ws and w are known: ur from p_v and p_ws, tpo from
\* p_v
state_from_vapor_pressure(tbs, tbm, w, p_v, p_ws, p_atm, ulp) ==
    MoistAirState(tbs, tbm,
                  relative_humidity_from_vapor_pressure(p_v, p_ws, ulp),
                  w, dew_point_temperature(p_v), p_v, p_ws, p_atm)

\* the saturated record at p_ws(tbs): p_v = p_ws, ur = 100.0, tpo = tbs
saturated_state(tbs, tbm, p_ws_tbs, p_atm) ==
    MoistAirState(tbs, tbm, 100 * SCALE,
                  humidity_ratio_from_vapor_pressure(p_ws_tbs, p_atm),
                  tbs, p_ws_tbs, p_ws_tbs, p_atm)

\* the saturated branch returning tbs for tbm
tbs_tbm_saturated_equal_bulbs(tbs, tbm, p_atm) ==
    saturated_state(tbs, tbs, saturation_vapor_pressure(tbs), p_atm)

\* calculate_properties_tbs_tbm, saturated branch
tbs_tbm_saturated(tbs, tbm, p_atm) ==
    saturated_state(tbs, tbm, saturation_vapor_pressure(tbs), p_atm)

\* the general branch once w is known
general_state(tbs, tbm, w, p_atm, ulp) ==
    state_from_vapor_pressure(tbs, tbm, w,
        vapor_pressure_from_humidity_ratio(w, p_atm),
        saturation_vapor_pressure(tbs), p_atm, ulp)

\* calculate_properties_tbs_tbm, general branch
tbs_tbm_general(tbs, tbm, p_atm, ulp) ==
    general_state(tbs, tbm,
        energy_balance(
            energy_factor(tbs, tbm),
            humidity_ratio_from_vapor_pressure(saturation_vapor_pressure(tbm),
                                               p_atm),
            tbs, tbm),
        p_atm, ulp)

\* calculate_properties_tbs_tbm; ulp is the last place of the float ur
calculate_properties_tbs_tbm(tbs, tbm, p_atm, ulp) ==
    IF same_bulb(tbs, tbm) THEN tbs_tbm_saturated(tbs, tbm, p_atm)
    ELSE tbs_tbm_general(tbs, tbm, p_atm, ulp)

\* the record of calculate_properties_tbs_ur once p_v is known
ur_state(tbs, tbm, ur, p_v, p_ws, p_atm) ==
    MoistAirState(tbs, tbm, ur, humidity_ratio_from_vapor_pressure(p_v, p_atm),
                  dew_point_temperature(p_v), p_v, p_ws, p_atm)

\* p_v = (ur / 100.0) * p_ws_tbs
vapor_pressure_from_ur(ur, p_ws_tbs) == Mul(MulDiv(ur, 1, 100), p_ws_tbs)

\* the record of calculate_properties_tbs_ur once p_ws(tbs) is known
ur_state_at(tbs, tbm, ur, p_ws_tbs, p_atm) ==
    ur_state(tbs, tbm, ur, vapor_pressure_from_ur(ur, p_ws_tbs), p_ws_tbs, p_atm)

\* calculate_properties_tbs_ur up to the choice of tbm; tbm is filled in by
\* the saturation shortcut or by the solver
tbs_ur_state(tbs, ur, p_atm, tbm) ==
    ur_state_at(tbs, tbm, ur, saturation_vapor_pressure(tbs), p_atm)

\* the record of calculate_properties_tbs_tpo once p_v and p_ws are known
tpo_state(tbs, tbm, tpo, p_v, p_ws, p_atm, ulp) ==
    MoistAirState(tbs, tbm,
                  relative_humidity_from_vapor_pressure(p_v, p_ws, ulp),
                  humidity_ratio_from_vapor_pressure(p_v, p_atm),
                  tpo, p_v, p_ws, p_atm)

\* calculate_properties_tbs_tpo up to the choice of tbm; ulp is the last
\* place of the float ur
tbs_tpo_state(tbs, tpo, p_atm, tbm, ulp) ==
    tpo_state(tbs, tbm, tpo, saturation_vapor_pressure(tpo),
              saturation_vapor_pressure(tbs), p_atm, ulp)

\* ------------------------------------------------------------------------
\* State: one call of an engine operation at a time
\* ------------------------------------------------------------------------

VARIABLES
    pc,      \* "idle", "solving" (inside the loop of wet_bulb_temperature), "done"
    op,      \* the operation called
    args,    \* its arguments
    ret,     \* what it returned, once pc = "done"
    solver,  \* the locals of wet_bulb_temperature and the path it returned by
    pending, \* the locals of the resolver that called wet_bulb_temperature
    calls,   \* the branches and callees the operation went through
    held,    \* a record the caller has kept from an earlier call
    rounding \* the last place binary64 gives 100 * p_v / p_ws for the p_v
             \* and p_ws of a call of calculate_properties_tbs_tbm or
             \* calculate_properties_tbs_tpo; 0 during the other calls
VARIABLES
    app      \* the last run of the application script over a tab with a
             \* range check: the tab, its two inputs and what it showed

VARIABLES
    prefs,   \* st.session_state.user_preferences: saved_profiles and
             \* current_profile (the last_saved timestamp is not followed)
    session  \* the session values a profile holds: altitude and p_atm

vars ==
    <<pc, op, args, ret, solver, pending, calls, held, rounding, app, prefs,
      session>>

\* bounds of the input grids
NAlt == 20
NTbs == 12
NUr == 5
NSat == 60

\* altitudes in metres: a grid over [0, 250 * NAlt] and altitudes far outside
AltitudeInputs ==
    {[kind |-> "num", m |-> i * 250] : i \in 0..NAlt}
      \cup {[kind |-> "num", m |-> m] :
              m \in {0 - 50000, 0 - 1000, 1, 17000, 44330, 44331, 44332, 60000}}
      \cup {[kind |-> "numstr", m |-> 1000], [kind |-> "str"], [kind |-> "none"]}

\* dry-bulb temperatures: every 5 degrees from -20
TbsInputs == {i * 5 * SCALE : i \in (0 - 4)..NTbs}

\* wet-bulb and dew-point depressions tbs - tbm, tbs - tpo
DepressionInputs ==
    {0, 500, 100000, 200000, 500000, 700000, 1000000, 2000000, 3500000}

\* relative humidities: every 20 % and values around the saturation test
UrInputs ==
    {i * 20 * SCALE : i \in 0..NUr}
      \cup {9989000, 9990000, 9995000, 10010000, 10011000, 10500000}

\* humidity ratios for direct calls of the solver
WInputs == {0, 10, 11, 50, 500, 2000, 10000}

\* atmospheric pressures: sea level and about 5000 m
PAtmInputs == {P_std, 5400000}

\* with the hottest supported dry bulb, also the lowest pressure
\* calculate_atmospheric_pressure returns (0.1 * P_std): there p_ws(tbs)
\* exceeds p_atm
LowPAtmInputs(tbs) == IF tbs = 60 * SCALE THEN {1013250} ELSE {}

\* humidity ratios in (0, 0.03) and pressures in (80, 105) for direct calls
\* of vapor_pressure_from_humidity_ratio
ConversionWInputs == {1, 10, 100, 500, 1000, 1500, 2000, 2500, 2999}
ConversionPAtmInputs == {8000001, 9000000, P_std, 10499999}

\* temperatures for direct calls of saturation_vapor_pressure: every degree
\* from -50, just below 0, and 0 K
SaturationInputs ==
    {i * SCALE : i \in (0 - 50)..NSat} \cup {0 - 1000, 0 - T_0}

\* vapor pressures for direct calls of dew_point_temperature: 0, around the
\* 0.001 kPa test, and up to where the result is clamped at 60
DewPointInputs ==
    {0, 50, 99, 100, 101, 110, 500, 1000, 5000, 10000, 61120, 100000,
     300000, 2000000, 2500000}

\* arguments of wet_bulb_temperature of which at least one is no number
ArgKinds == {"num", "str", "none"}
arg_of(kind, v) == [kind |-> kind, v |-> IF kind = "num" THEN v ELSE 0]
AnyKindCalls ==
    {[tbs |-> arg_of(kt, 25 * SCALE), w |-> arg_of(kw, wv),
      p_atm |-> arg_of(kp, P_std)] :
        kt \in ArgKinds, kw \in ArgKinds, kp \in ArgKinds, wv \in {5, 1000}}
NonNumericCalls ==
    {c \in AnyKindCalls :
        c.tbs.kind # "num" \/ c.w.kind # "num" \/ c.p_atm.kind # "num"}

\* ------------------------------------------------------------------------
\* the profile store of user_preferences.py
\* ------------------------------------------------------------------------

\* profiles are named 1..NProfiles; current_profile None is NoProfile
NProfiles == 2
ProfileNames == 1..NProfiles
NoProfile == 0

\* a key a profile does not have
AbsentKey == 0 - 1

\* the altitudes the session takes
SessionAltitudes == {0, 1000}

\* the value saved_profiles holds under a name: nothing, a dict of settings
\* (with or without the key 'altitude'), or a JSON value that is no dict
Unsaved == [kind |-> "unsaved", altitude |-> AbsentKey]
NotADict == [kind |-> "int", altitude |-> AbsentKey]
settings(altitude) == [kind |-> "dict", altitude |-> altitude]
ProfileData ==
    {settings(a) : a \in SessionAltitudes \cup {AbsentKey}} \cup {NotADict}

saved_names(p) ==
    {n \in ProfileNames : p.saved_profiles[n].kind # "unsaved"}

init_preferences ==
    [saved_profiles |-> [n \in ProfileNames |-> Unsaved],
     current_profile |-> NoProfile]

\* each operation gives [ok, raised, prefs, session]: what it returned, whether
\* an exception left it, and the store and session values after it
outcome(ok, raised, p, ss) ==
    [ok |-> ok, raised |-> raised, prefs |-> p, session |-> ss]

save_current_settings(p, ss, name) ==
    outcome(TRUE, FALSE,
            [saved_profiles |->
               [p.saved_profiles EXCEPT ![name] = settings(ss.altitude)],
             current_profile |-> name],
            ss)

\* the session values once the keys of the dict profile are applied
apply_profile(profile, ss) ==
    IF profile.altitude = AbsentKey THEN ss
    ELSE [ss EXCEPT !.altitude = profile.altitude]

\* p_atm recomputed from the session's altitude
with_pressure(ss) ==
    [ss EXCEPT !.p_atm =
       calculate_atmospheric_pressure([kind |-> "num", m |-> ss.altitude]).v]

\* 'altitude' in profile raises TypeError for a profile that is no dict
load_profile(p, ss, name) ==
    IF name \notin saved_names(p) THEN outcome(FALSE, FALSE, p, ss)
    ELSE IF p.saved_profiles[name].kind # "dict"
    THEN outcome(FALSE, TRUE, p, ss)
    ELSE outcome(TRUE, FALSE, [p EXCEPT !.current_profile = name],
                 with_pressure(apply_profile(p.saved_profiles[name], ss)))

\* delete_profile that leaves current_profile as it was
delete_profile_keeps_current(p, ss, name) ==
    IF name \notin saved_names(p) THEN outcome(FALSE, FALSE, p, ss)
    ELSE outcome(TRUE, FALSE, [p EXCEPT !.saved_profiles[name] = Unsaved], ss)

delete_profile(p, ss, name) ==
    IF name \notin saved_names(p) THEN outcome(FALSE, FALSE, p, ss)
    ELSE outcome(TRUE, FALSE,
                 [saved_profiles |-> [p.saved_profiles EXCEPT ![name] = Unsaved],
                  current_profile |->
                    IF p.current_profile = name THEN NoProfile
                    ELSE p.current_profile],
                 ss)

\* the argument of import_profiles: a code that decodes to a JSON object of
\* profiles (profiles[n] = Unsaved: no key n), or one that fails to decode
\* or decodes to something else
undecodable == [kind |-> "undecodable", profiles |-> init_preferences.saved_profiles]
code_of(profiles) == [kind |-> "object", profiles |-> profiles]
one_profile(name, data) ==
    code_of([n \in ProfileNames |-> IF n = name THEN data ELSE Unsaved])
ImportInputs ==
    {undecodable, code_of([n \in ProfileNames |-> settings(1000)])}
      \cup {one_profile(n, d) : n \in ProfileNames, d \in ProfileData}

import_profiles(p, ss, encoded_data) ==
    IF encoded_data.kind # "object" THEN outcome(FALSE, FALSE, p, ss)
    ELSE outcome(TRUE, FALSE,
                 [p EXCEPT !.saved_profiles =
                    [n \in ProfileNames |->
                       IF encoded_data.profiles[n] = Unsaved
                       THEN p.saved_profiles[n]
                       ELSE encoded_data.profiles[n]]],
                 ss)

\* no run of the application script: the engine is called directly
NoApp == [tab |-> "none", tbs |-> 0, entered |-> 0, shown |-> "none"]

\* the values the number inputs of tab 1 and tab 3 can hold (a part of the
\* 0.1 degree grid over [-20, 60]); p_atm is the sea-level default
AppTbsInputs == {0 - 20 * SCALE, 0, 25 * SCALE, 60 * SCALE}
AppEnteredInputs ==
    {0 - 20 * SCALE, 0 - 10000, 0, 15 * SCALE, 18 * SCALE, 25 * SCALE,
     25 * SCALE + 10000, 60 * SCALE}

NoSolver == [tbs |-> 0, w |-> 0, p_atm |-> 0, tbm |-> 0, i |-> 0, path |-> "none"]

Init ==
    /\ pc = "idle"
    /\ op = "none"
    /\ args = <<>>
    /\ ret = <<>>
    /\ solver = NoSolver
    /\ pending = <<>>
    /\ calls = {}
    /\ held = <<>>
    /\ rounding = 0
    /\ app = NoApp
    /\ prefs = init_preferences
    /\ session = [altitude |-> 0, p_atm |-> P_std]

\* what the caller of wet_bulb_temperature makes of the returned tbm: a
\* resolver puts it into the record st of its locals
solver_result(o, st, tbm) ==
    IF o = "wet_bulb_temperature" THEN [tbm |-> tbm]
    ELSE [st EXCEPT !.tbm = tbm]

\* wet_bulb_temperature(tbs, w, p_atm) up to the first loop iteration, called
\* by operation o whose locals are st
EnterSolver(o, st, tbs, w, p_atm) ==
    /\ pending' = st
    /\ IF very_dry(w)
       THEN /\ pc' = "done"
            /\ solver' = [tbs |-> tbs, w |-> w, p_atm |-> p_atm,
                          tbm |-> dry_air_estimate(tbs), i |-> 0, path |-> "dry"]
            /\ ret' = solver_result(o, st, dry_air_estimate(tbs))
       ELSE /\ pc' = "solving"
            /\ solver' = [tbs |-> tbs, w |-> w, p_atm |-> p_atm,
                          tbm |-> tbs - 2 * SCALE, i |-> 0, path |-> "loop"]
            /\ ret' = <<>>

\* wet_bulb_temperature returns tbm by the given path
LeaveSolver(tbm, path) ==
    /\ pc' = "done"
    /\ solver' = [solver EXCEPT !.tbm = tbm, !.path = path]
    /\ ret' = solver_result(op, pending, tbm)

CallPressure(altitude) ==
    /\ pc = "idle"
    /\ pc' = "done"
    /\ op' = "calculate_atmospheric_pressure"
    /\ args' = [altitude |-> altitude]
    /\ ret' = calculate_atmospheric_pressure(altitude)
    /\ calls' = {}
    /\ UNCHANGED <<solver, pending, held>>
    /\ rounding' = 0
    /\ app' = NoApp
    /\ UNCHANGED <<prefs, session>>

CallVaporPressure(w, p_atm) ==
    /\ pc = "idle"
    /\ pc' = "done"
    /\ op' = "vapor_pressure_from_humidity_ratio"
    /\ args' = [w |-> w, p_atm |-> p_atm]
    /\ ret' = [v |-> vapor_pressure_from_humidity_ratio(w, p_atm)]
    /\ calls' = {}
    /\ UNCHANGED <<solver, pending, held>>
    /\ rounding' = 0
    /\ app' = NoApp
    /\ UNCHANGED <<prefs, session>>

\* saturation_vapor_pressure(t) as its caller sees it: the quotients by T
\* raise ZeroDivisionError at T = 0
saturation_call(t) ==
    IF saturation_vapor_pressure_raises(t) THEN [raised |-> TRUE, v |-> 0]
    ELSE [raised |-> FALSE, v |-> saturation_vapor_pressure(t)]

CallSaturation(t) ==
    /\ pc = "idle"
    /\ pc' = "done"
    /\ op' = "saturation_vapor_pressure"
    /\ args' = [t |-> t]
    /\ ret' = saturation_call(t)
    /\ calls' = {}
    /\ UNCHANGED <<solver, pending, held>>
    /\ rounding' = 0
    /\ app' = NoApp
    /\ UNCHANGED <<prefs, session>>

CallDewPoint(p_v) ==
    /\ pc = "idle"
    /\ pc' = "done"
    /\ op' = "dew_point_temperature"
    /\ args' = [p_v |-> p_v]
    /\ ret' = [tpo |-> dew_point_temperature(p_v)]
    /\ calls' = {}
    /\ UNCHANGED <<solver, pending, held>>
    /\ rounding' = 0
    /\ app' = NoApp
    /\ UNCHANGED <<prefs, session>>

\* the call calculate_properties_tbs_tbm(tbs, tbm, p_atm)
InvokeTbsTbm(tbs, tbm, p_atm, ulp) ==
    /\ pc = "idle"
    /\ pc' = "done"
    /\ op' = "calculate_properties_tbs_tbm"
    /\ args' = [tbs |-> tbs, tbm |-> tbm, p_atm |-> p_atm]
    /\ ret' = calculate_properties_tbs_tbm(tbs, tbm, p_atm, ulp)
    /\ calls' = IF same_bulb(tbs, tbm) THEN {"saturated_branch"}
                ELSE {"general_formula"}
    /\ UNCHANGED <<solver, pending, held>>
    /\ rounding' = ulp

CallTbsTbm(tbs, tbm, p_atm, ulp) ==
    /\ InvokeTbsTbm(tbs, tbm, p_atm, ulp)
    /\ app' = NoApp
    /\ UNCHANGED <<prefs, session>>

\* the tail of calculate_properties_tbs_ur and calculate_properties_tbs_tpo:
\* st is the record computed so far (with tbm = tbs); near saturation it is
\* returned as it is, otherwise wet_bulb_temperature(tbs, w, p_atm) is called
ResolveWetBulb(o, st, tbs, p_atm) ==
    IF near_saturation(st.ur)
    THEN /\ pc' = "done"
         /\ ret' = st
         /\ calls' = {"saturation_shortcut"}
         /\ UNCHANGED <<solver, pending>>
    ELSE /\ calls' = {"wet_bulb_temperature"}
         /\ EnterSolver(o, st, tbs, st.w, p_atm)

CallTbsUr(tbs, ur, p_atm) ==
    /\ pc = "idle"
    /\ op' = "calculate_properties_tbs_ur"
    /\ UNCHANGED held
    /\ rounding' = 0
    /\ app' = NoApp
    /\ UNCHANGED <<prefs, session>>
    /\ args' = [tbs |-> tbs, ur |-> ur, p_atm |-> p_atm]
    /\ ResolveWetBulb("calculate_properties_tbs_ur",
                      tbs_ur_state(tbs, ur, p_atm, tbs), tbs, p_atm)

\* the call calculate_properties_tbs_tpo(tbs, tpo, p_atm)
InvokeTbsTpo(tbs, tpo, p_atm, ulp) ==
    /\ pc = "idle"
    /\ op' = "calculate_properties_tbs_tpo"
    /\ UNCHANGED held
    /\ rounding' = ulp
    /\ args' = [tbs |-> tbs, tpo |-> tpo, p_atm |-> p_atm]
    /\ ResolveWetBulb("calculate_properties_tbs_tpo",
                      tbs_tpo_state(tbs, tpo, p_atm, tbs, ulp), tbs, p_atm)

CallTbsTpo(tbs, tpo, p_atm, ulp) ==
    /\ InvokeTbsTpo(tbs, tpo, p_atm, ulp)
    /\ app' = NoApp
    /\ UNCHANGED <<prefs, session>>

\* one run of the application script shows tab 1 or tab 3 with the inputs
\* tbs and entered; pressed tells whether this run was started by a press
\* of the tab's Calculate button
AppRun(tab, tbs, entered, shown) ==
    [tab |-> tab, tbs |-> tbs, entered |-> entered, shown |-> shown]

\* a run that ends without calling an engine function
NoCalculation ==
    /\ pc' = "done"
    /\ UNCHANGED <<op, args, ret, solver, pending, calls, held, rounding>>

\* the range check of tab 1 accepting a wet bulb up to one degree above tbs1
tbm_above_tbs_by_a_degree(tbm, tbs1) == tbm > tbs1 + SCALE

\* the range checks of tab 1 and tab 3
tbm_above_tbs(tbm, tbs1) == tbm > tbs1
tpo_above_tbs(tpo, tbs3) == tpo > tbs3

Tab1Run(tbs1, tbm, pressed, ulp) ==
    /\ pc = "idle"
    /\ UNCHANGED <<prefs, session>>
    /\ IF tbm_above_tbs(tbm, tbs1)
       THEN /\ app' = AppRun("tab1", tbs1, tbm, "error")
            /\ NoCalculation
       ELSE IF pressed
       THEN /\ app' = AppRun("tab1", tbs1, tbm, "results")
            /\ InvokeTbsTbm(tbs1, tbm, P_std, ulp)
       ELSE /\ app' = AppRun("tab1", tbs1, tbm, "button")
            /\ NoCalculation

Tab3Run(tbs3, tpo, pressed, ulp) ==
    /\ pc = "idle"
    /\ UNCHANGED <<prefs, session>>
    /\ IF tpo_above_tbs(tpo, tbs3)
       THEN /\ app' = AppRun("tab3", tbs3, tpo, "error")
            /\ NoCalculation
       ELSE IF pressed
       THEN /\ app' = AppRun("tab3", tbs3, tpo, "results")
            /\ InvokeTbsTpo(tbs3, tpo, P_std, ulp)
       ELSE /\ app' = AppRun("tab3", tbs3, tpo, "button")
            /\ NoCalculation

CallWetBulb(tbs, w, p_atm) ==
    /\ pc = "idle"
    /\ op' = "wet_bulb_temperature"
    /\ args' = [tbs |-> tbs, w |-> w, p_atm |-> p_atm]
    /\ calls' = {}
    /\ UNCHANGED held
    /\ rounding' = 0
    /\ app' = NoApp
    /\ UNCHANGED <<prefs, session>>
    /\ EnterSolver("wet_bulb_temperature", <<>>, tbs, w, p_atm)

\* An argument that may be non-numeric is one of
\*   [kind |-> "num", v |-> value]   an int or float
\*   [kind |-> "str", v |-> 0]       a string
\*   [kind |-> "none", v |-> 0]      None
\* wet_bulb_temperature(tbs, w, p_atm) up to its isinstance guard, for
\* arguments not all numeric.  w <= 0.0001 (line 144) raises TypeError for a
\* w that is no number; tbs - 15.0 (line 145), tbs - 2.0 (line 148) raise
\* TypeError for a tbs that is no number; the guard (lines 155-156) is
\* reached only with numeric tbs and w, for a p_atm that is no number
wet_bulb_guard(tbs, w, p_atm) ==
    IF w.kind # "num" THEN [raised |-> TRUE, tbm |-> 0]
    ELSE IF very_dry(w.v)
    THEN (IF tbs.kind # "num" THEN [raised |-> TRUE, tbm |-> 0]
          ELSE [raised |-> FALSE, tbm |-> dry_air_estimate(tbs.v)])
    ELSE IF tbs.kind # "num" THEN [raised |-> TRUE, tbm |-> 0]
    ELSE [raised |-> FALSE, tbm |-> tbs.v - 5 * SCALE]

\* the body of one loop iteration after w_calc: return on convergence, step
\* otherwise; the iteration that exhausts range(max_iterations) falls through
\* to the final return
loop_body(s, w_calc) ==
    IF converged(w_calc, s.w) THEN [path |-> "converged", tbm |-> s.tbm]
    ELSE IF s.i + 1 = max_iterations
    THEN [path |-> "cap",
          tbm |-> clamp_tbm(next_tbm(s.tbm, w_calc, s.w, s.tbs), s.tbs)]
    ELSE [path |-> "loop", tbm |-> next_tbm(s.tbm, w_calc, s.w, s.tbs)]

\* the loop body for the values of the locals and of w_calc
loop_body_at[tbs \in Int, w \in Int, p_atm \in Int, tbm \in Int, i \in Int, w_calc \in Int] ==
    loop_body([tbs |-> tbs, w |-> w, p_atm |-> p_atm, tbm |-> tbm, i |-> i],
              w_calc)

\* one iteration inside the try block: an exception leaves through the
\* except clause
loop_iteration_at[tbs \in Int, w \in Int, p_atm \in Int, tbm \in Int, i \in Int] ==
    IF saturation_vapor_pressure_raises(tbm)
    THEN [path |-> "except", tbm |-> exception_estimate(tbs)]
    ELSE loop_body_at[tbs, w, p_atm, tbm, i, w_calc_at(tbs, tbm, p_atm)]

\* one iteration without the except clause: the exception leaves the solver
loop_iteration_uncaught(s) ==
    IF saturation_vapor_pressure_raises(s.tbm)
    THEN [path |-> "raised", tbm |-> s.tbm]
    ELSE loop_iteration_at[s.tbs, s.w, s.p_atm, s.tbm, s.i]

loop_iteration(s) == loop_iteration_at[s.tbs, s.w, s.p_atm, s.tbm, s.i]

\* the for loop of wet_bulb_temperature run from the locals s to its return
RECURSIVE wet_bulb_from(_)
wet_bulb_after(s, o) ==
    IF o.path = "loop"
    THEN wet_bulb_from([s EXCEPT !.tbm = o.tbm, !.i = s.i + 1])
    ELSE o

wet_bulb_from(s) == wet_bulb_after(s, loop_iteration(s))

\* wet_bulb_temperature(tbs, w, p_atm) as a function of its arguments
wet_bulb_temperature(tbs, w, p_atm) ==
    IF very_dry(w) THEN dry_air_estimate(tbs)
    ELSE wet_bulb_from([tbs |-> tbs, w |-> w, p_atm |-> p_atm,
                        tbm |-> tbs - 2 * SCALE, i |-> 0, path |-> "loop"]).tbm

\* the tail of calculate_properties_tbs_ur and calculate_properties_tbs_tpo
\* as a function of the record st computed so far
resolve_wet_bulb(st, tbs, p_atm) ==
    IF near_saturation(st.ur) THEN st
    ELSE [st EXCEPT !.tbm = wet_bulb_temperature(tbs, st.w, p_atm)]

\* calculate_properties_tbs_ur as a function of its arguments
calculate_properties_tbs_ur(tbs, ur, p_atm) ==
    resolve_wet_bulb(tbs_ur_state(tbs, ur, p_atm, tbs), tbs, p_atm)

\* calculate_properties_tbs_tpo as a function of its arguments and of the
\* last place of the float ur
calculate_properties_tbs_tpo(tbs, tpo, p_atm, ulp) ==
    resolve_wet_bulb(tbs_tpo_state(tbs, tpo, p_atm, tbs, ulp), tbs, p_atm)

\* wet_bulb_temperature called with an argument that is no number
CallWetBulbNonNumeric(c) ==
    /\ pc = "idle"
    /\ pc' = "done"
    /\ op' = "wet_bulb_temperature, non-numeric"
    /\ args' = c
    /\ ret' = wet_bulb_guard(c.tbs, c.w, c.p_atm)
    /\ calls' = {}
    /\ UNCHANGED <<solver, pending, held>>
    /\ rounding' = 0
    /\ app' = NoApp
    /\ UNCHANGED <<prefs, session>>

\* the solver after an iteration with outcome o
AfterIteration(o) ==
    IF o.path = "loop"
    THEN /\ solver' = [solver EXCEPT !.tbm = o.tbm, !.i = solver.i + 1]
         /\ UNCHANGED <<pc, ret>>
    ELSE LeaveSolver(o.tbm, o.path)

\* one iteration of the for loop of wet_bulb_temperature
SolverStep ==
    /\ pc = "solving"
    /\ UNCHANGED <<op, args, pending, calls, held, rounding, app, prefs, session>>
    /\ \E o \in {loop_iteration(solver)} : AfterIteration(o)

\* the call whose record the caller keeps over the later calls
HeldCall == [tbs |-> 25 * SCALE, ur |-> 60 * SCALE, p_atm |-> P_std]

\* one record shared by all the calls of calculate_properties_tbs_ur: the
\* kept record follows every later call
held_after_shared(o, a, r) ==
    IF o = "calculate_properties_tbs_ur" /\ (DOMAIN held # {} \/ a = HeldCall)
    THEN r ELSE held

\* what the caller holds once the operation o called with a has returned r
held_after(o, a, r) ==
    IF DOMAIN held = {} /\ o = "calculate_properties_tbs_ur" /\ a = HeldCall
    THEN r ELSE held

\* the caller takes the result; the engine keeps nothing between calls, and
\* the next run of the application script reads its inputs anew
Return ==
    /\ pc = "done"
    /\ pc' = "idle"
    /\ op' = "none"
    /\ args' = <<>>
    /\ ret' = <<>>
    /\ solver' = NoSolver
    /\ pending' = <<>>
    /\ calls' = {}
    /\ held' = held_after(op, args, ret)
    /\ rounding' = 0
    /\ app' = NoApp
    /\ UNCHANGED <<prefs, session>>

\* a call of the profile store: the engine is not involved
ProfileCall(o, a, r) ==
    /\ op' = o
    /\ args' = a
    /\ ret' = [ok |-> r.ok, raised |-> r.raised]
    /\ prefs' = r.prefs
    /\ session' = r.session
    /\ UNCHANGED <<pc, solver, pending, calls, held, rounding, app>>

SaveCurrentSettings(name) ==
    ProfileCall("save_current_settings", [profile_name |-> name],
                save_current_settings(prefs, session, name))

LoadProfile(name) ==
    ProfileCall("load_profile", [profile_name |-> name],
                load_profile(prefs, session, name))

DeleteProfile(name) ==
    ProfileCall("delete_profile", [profile_name |-> name],
                delete_profile(prefs, session, name))

ImportProfiles(encoded_data) ==
    ProfileCall("import_profiles", [encoded_data |-> encoded_data],
                import_profiles(prefs, session, encoded_data))

\* the user sets the altitude input: a run of the script with no call of
\* the profile store
SetAltitude(altitude) ==
    /\ op' = "none"
    /\ args' = <<>>
    /\ ret' = <<>>
    /\ session' = with_pressure([session EXCEPT !.altitude = altitude])
    /\ UNCHANGED <<pc, solver, pending, calls, held, rounding, app, prefs>>

ProfileNext ==
    \/ \E name \in ProfileNames : SaveCurrentSettings(name)
    \/ \E name \in ProfileNames : LoadProfile(name)
    \/ \E name \in ProfileNames : DeleteProfile(name)
    \/ \E encoded_data \in ImportInputs : ImportProfiles(encoded_data)
    \/ \E altitude \in SessionAltitudes : SetAltitude(altitude)

ProfileSpec == Init /\ [][ProfileNext]_vars

Next ==
    \/ \E altitude \in AltitudeInputs : CallPressure(altitude)
    \/ \E w \in ConversionWInputs, p_atm \in ConversionPAtmInputs :
          CallVaporPressure(w, p_atm)
    \/ \E t \in SaturationInputs : CallSaturation(t)
    \/ \E p_v \in DewPointInputs : CallDewPoint(p_v)
    \/ \E tbs \in TbsInputs, d \in DepressionInputs, p_atm \in PAtmInputs,
          ulp \in UlpOutcomes :
          CallTbsTbm(tbs, tbs - d, p_atm, ulp)
    \/ \E tbs \in TbsInputs, ur \in UrInputs :
          \E p_atm \in PAtmInputs \cup LowPAtmInputs(tbs) :
              CallTbsUr(tbs, ur, p_atm)
    \/ \E tbs \in TbsInputs, d \in DepressionInputs \cup {0 - 100000},
          p_atm \in PAtmInputs, ulp \in UlpOutcomes :
          CallTbsTpo(tbs, tbs - d, p_atm, ulp)
    \/ \E tbs \in TbsInputs \cup {0 - 27115000}, w \in WInputs :
          CallWetBulb(tbs, w, P_std)
    \/ \E c \in NonNumericCalls : CallWetBulbNonNumeric(c)
    \/ \E tbs1 \in AppTbsInputs, tbm \in AppEnteredInputs, pressed \in BOOLEAN,
          ulp \in UlpOutcomes :
          Tab1Run(tbs1, tbm, pressed, ulp)
    \/ \E tbs3 \in AppTbsInputs, tpo \in AppEnteredInputs, pressed \in BOOLEAN,
          ulp \in UlpOutcomes :
          Tab3Run(tbs3, tpo, pressed, ulp)
    \/ SolverStep
    \/ Return

Spec == Init /\ [][Next]_vars

\* the for loop runs in the caller's thread and waits for nothing: an
\* iteration that can run does run
FairSpec == Spec /\ WF_vars(SolverStep)

\* ------------------------------------------------------------------------
\* Properties
\* ------------------------------------------------------------------------

Resolvers ==
    {"calculate_properties_tbs_tbm", "calculate_properties_tbs_ur",
     "calculate_properties_tbs_tpo"}

\* a call of wet_bulb_temperature has returned
SolverReturned == pc = "done" /\ solver.path # "none"

\* C1: every value wet_bulb_temperature returns, by whichever path, satisfies
\* -20 <= tbm <= tbs
WetBulbBound ==
    SolverReturned =>
        /\ solver.tbm <= solver.tbs
        /\ solver.tbm >= 0 - 20 * SCALE

AshraeCall ==
    /\ pc = "done"
    /\ op = "calculate_properties_tbs_tbm"
    /\ args = [tbs |-> 25 * SCALE, tbm |-> 18 * SCALE, p_atm |-> P_std]

\* |x - centre| <= tol
Within(x, centre, tol) == Abs(x - centre) <= tol

\* C2 as stated: calculate_properties_tbs_tbm(25, 18, 101.325) has ur within
\* 54 +/- 3, w within 0.0112 +/- 0.0008, h within 53.7 +/- 2 and tpo within
\* 15.9 +/- 1
AshraeScenarioAsStated ==
    AshraeCall =>
        /\ Within(ret.ur, 5400000, 300000)
        /\ Within(ret.w, 1120, 80)
        /\ Within(ret.h, 5370000, 200000)
        /\ Within(ret.tpo, 1590000, 100000)

\* C2 amended: calculate_properties_tbs_tbm(25, 18, 101.325) has ur within
\* 50.8 +/- 3, w within 0.0100 +/- 0.0008, h within 50.7 +/- 2 and tpo within
\* 14.1 +/- 1
AshraeScenarioAmended ==
    AshraeCall =>
        /\ Within(ret.ur, 5080000, 300000)
        /\ Within(ret.w, 1000, 80)
        /\ Within(ret.h, 5070000, 200000)
        /\ Within(ret.tpo, 1410000, 100000)

AshraeScenarioWitness == AshraeCall /\ "general_formula" \in calls

PressureReturned == pc = "done" /\ op = "calculate_atmospheric_pressure"

\* C3: for every numeric altitude calculate_atmospheric_pressure raises
\* nothing and returns a value in [0.1 * P_std, 1.1 * P_std]
PressureTotalAndClamped ==
    (PressureReturned /\ args.altitude.kind = "num") =>
        /\ ~ret.raised
        /\ ret.v >= 1013250
        /\ ret.v <= 11145750

\* C4: for an altitude float() rejects (None, a non-numeric string)
\* calculate_atmospheric_pressure returns exactly P_std and raises nothing
UnparsableAltitudeGivesPstd ==
    (PressureReturned /\ args.altitude.kind \in {"none", "str"}) =>
        /\ ~ret.raised
        /\ ret.v = P_std

UnparsableAltitudeWitness ==
    /\ PressureReturned
    /\ args.altitude.kind = "none"
    /\ ret.v = P_std

\* the altitudes of the grid inside [0, 5000]
MonotoneRange == {a \in {i * 250 : i \in 0..NAlt} : a <= 5000}

\* C5: pressure(0) = 101.325 and over [0, 5000] the pressure at a higher
\* altitude is strictly below the pressure at every lower altitude
PressureStrictlyDecreasing ==
    (PressureReturned /\ args.altitude.kind = "num"
       /\ args.altitude.m >= 0 /\ args.altitude.m <= 5000) =>
        /\ ~ret.raised
        /\ args.altitude.m = 0 => ret.v = P_std
        /\ \A a \in MonotoneRange :
              a < args.altitude.m =>
                  calculate_atmospheric_pressure([kind |-> "num", m |-> a]).v > ret.v

PressureStrictlyDecreasingWitness ==
    /\ PressureReturned
    /\ args.altitude = [kind |-> "num", m |-> 5000]
    /\ ret.v > 1013250
    /\ ret.v < calculate_atmospheric_pressure([kind |-> "num", m |-> 4750]).v

\* C6: calculate_properties_tbs_tbm with |tbs - tbm| < 0.01 returns ur = 100,
\* tpo = tbs and p_v = p_ws(tbs) = the record's p_ws, without evaluating the
\* general-case formula
SaturationConsistency ==
    (pc = "done" /\ op = "calculate_properties_tbs_tbm"
       /\ Abs(args.tbs - args.tbm) < 1000) =>
        /\ ret.ur = 100 * SCALE
        /\ ret.tpo = args.tbs
        /\ ret.p_v = saturation_vapor_pressure(args.tbs)
        /\ ret.p_v = ret.p_ws
        /\ "general_formula" \notin calls

SaturationConsistencyWitness ==
    /\ pc = "done"
    /\ op = "calculate_properties_tbs_tbm"
    /\ args.tbs - args.tbm = 500
    /\ ret.ur = 100 * SCALE

\* C7: calculate_properties_tbs_ur(tbs, 100.0, p_atm) returns tbm = tbs and
\* tpo = tbs exactly
SaturatedRelativeHumidity ==
    (pc = "done" /\ op = "calculate_properties_tbs_ur"
       /\ args.ur = 100 * SCALE) =>
        /\ ret.tbm = args.tbs
        /\ ret.tpo = args.tbs

SaturationShortcutFromThreshold ==
    (pc = "done" /\ op \in {"calculate_properties_tbs_ur",
                            "calculate_properties_tbs_tpo"}) =>
        /\ ret.ur >= 9990000 =>
              (ret.tbm = args.tbs /\ "wet_bulb_temperature" \notin calls)
        /\ ret.ur < 9990000 =>
              ("wet_bulb_temperature" \in calls /\ ret.tbm = solver.tbm)

\* the caller preconditions: tbs and the second quantity inside the input
\* range of the application, tbm <= tbs, 0 <= ur <= 100, tpo <= tbs
CallerPreconditions ==
    /\ args.tbs >= 0 - 20 * SCALE /\ args.tbs <= 60 * SCALE
    /\ op = "calculate_properties_tbs_tbm" =>
          (args.tbm <= args.tbs /\ args.tbm >= 0 - 20 * SCALE)
    /\ op = "calculate_properties_tbs_ur" =>
          (args.ur >= 0 /\ args.ur <= 100 * SCALE)
    /\ op = "calculate_properties_tbs_tpo" =>
          (args.tpo <= args.tbs /\ args.tpo >= 0 - 20 * SCALE)

\* C10: every record a resolver returns for inputs meeting the caller
\* preconditions has w >= 0
NonNegativeHumidityRatio ==
    (pc = "done" /\ op \in Resolvers /\ CallerPreconditions) => ret.w >= 0

\* a resolver has returned a record for inputs meeting the caller
\* preconditions
ResolverReturned == pc = "done" /\ op \in Resolvers /\ CallerPreconditions

DewPointInvariant ==
    ResolverReturned =>
        /\ ret.tpo <= ret.tbs
        /\ ret.tpo = ret.tbs <=> ret.ur = 100 * SCALE

UrGrid == {u \in {i * 20 * SCALE : i \in 1..NUr} : u <= 100 * SCALE}

\* C14: for fixed tbs and p_atm the w of calculate_properties_tbs_ur is
\* strictly increasing in ur over (0, 100]: the w returned for ur is above
\* the w of every lower ur of the grid
HumidityRatioIncreasingInUr ==
    (pc = "done" /\ op = "calculate_properties_tbs_ur" /\ args.ur \in UrGrid) =>
        \A u \in UrGrid :
            u < args.ur =>
                humidity_ratio_from_vapor_pressure(
                    vapor_pressure_from_ur(u, ret.p_ws), args.p_atm) < ret.w

SaturationReturned == pc = "done" /\ op = "saturation_vapor_pressure"

\* C15: saturation_vapor_pressure(t) returns without raising for every
\* numeric t, t = -273.15 included, and so do the resolvers that call it
SaturationPressureTotal == SaturationReturned => ~ret.raised

\* the temperatures of the grid inside [-50, 60]
SaturationRange ==
    {t \in SaturationInputs : t >= 0 - 50 * SCALE /\ t <= 60 * SCALE}

\* C18: over [-50, 60] saturation_vapor_pressure is increasing, across 0 as
\* well: the value at t is above the value at every lower temperature of the
\* grid, the ice values below 0 included
SaturationPressureIncreasing ==
    (SaturationReturned /\ args.t \in SaturationRange) =>
        /\ ~ret.raised
        /\ \A u \in SaturationRange :
              u < args.t => saturation_vapor_pressure(u) < ret.v

\* the liquid value at 0 above the ice value just below 0
SaturationPressureIncreasingWitness ==
    /\ SaturationReturned
    /\ args.t = 0
    /\ ~ret.raised
    /\ saturation_vapor_pressure(0 - 1000) > 0
    /\ saturation_vapor_pressure(0 - 1000) < ret.v

\* r is what operation o returns for the arguments a, whatever was called
\* before
ResultOf(o, a, r) ==
    CASE o = "none" -> r = <<>>
      [] o = "calculate_atmospheric_pressure" ->
            r = calculate_atmospheric_pressure(a.altitude)
      [] o = "saturation_vapor_pressure" -> r = saturation_call(a.t)
      [] o = "dew_point_temperature" ->
            r = [tpo |-> dew_point_temperature(a.p_v)]
      [] o = "vapor_pressure_from_humidity_ratio" ->
            r = [v |-> vapor_pressure_from_humidity_ratio(a.w, a.p_atm)]
      [] o = "wet_bulb_temperature" ->
            r = [tbm |-> wet_bulb_temperature(a.tbs, a.w, a.p_atm)]
      [] o = "wet_bulb_temperature, non-numeric" ->
            r = wet_bulb_guard(a.tbs, a.w, a.p_atm)
      [] o = "calculate_properties_tbs_ur" ->
            r = calculate_properties_tbs_ur(a.tbs, a.ur, a.p_atm)
      [] o = "calculate_properties_tbs_tbm" ->
            \E ulp \in UlpOutcomes :
                r = calculate_properties_tbs_tbm(a.tbs, a.tbm, a.p_atm, ulp)
      [] o = "calculate_properties_tbs_tpo" ->
            \E ulp \in UlpOutcomes :
                r = calculate_properties_tbs_tpo(a.tbs, a.tpo, a.p_atm, ulp)

ConvergenceObservable ==
    (SolverReturned /\ ~saturation_vapor_pressure_raises(solver.tbm)) =>
        (solver.path = "converged" <=>
            converged(w_calc_at(solver.tbs, solver.tbm, solver.p_atm), solver.w))

\* the loop of wet_bulb_temperature was entered and left without a passed
\* convergence test
LeftUnconverged == SolverReturned /\ solver.path \in {"cap", "except"}

SolverBounded ==
    /\ solver.i < max_iterations
    /\ SolverReturned =>
          /\ solver.path \in {"dry", "converged", "cap", "except"}
          /\ solver.path = "cap" =>
                /\ solver.i = max_iterations - 1
                /\ solver.tbm = clamp_tbm(solver.tbm, solver.tbs)
                /\ solver.tbs >= 0 - 20 * SCALE =>
                      (solver.tbm >= 0 - 20 * SCALE /\ solver.tbm <= solver.tbs)
          /\ solver.path = "except" =>
                solver.tbm = exception_estimate(solver.tbs)

SteppedTo(tbm, dir) ==
    /\ tbm >= 0 - 20 * SCALE
    /\ tbm <= solver.tbs
    /\ \/ tbm = solver.tbm + dir * 5000
       \/ (Abs(tbm - solver.tbm) > 5000 /\ tbm \in {0 - 20 * SCALE, solver.tbs})
       \/ (tbm = solver.tbs /\ dir = 1 /\ solver.tbm + 5000 > solver.tbs)
       \/ (tbm = 0 - 20 * SCALE /\ dir = 0 - 1
             /\ solver.tbm - 5000 < 0 - 20 * SCALE)

\* one iteration with the value w_calc follows the step rule
IterationFollowsRule(w_calc) ==
    IF Abs(w_calc - solver.w) < 1000
    THEN pc' = "done" /\ solver'.tbm = solver.tbm /\ ret'.tbm = solver.tbm
    ELSE SteppedTo(solver'.tbm, IF w_calc > solver.w THEN 0 - 1 ELSE 1)

StepRuleAction ==
    /\ (pc = "idle" /\ pc' = "solving") =>
          (solver'.tbm = solver'.tbs - 2 * SCALE /\ solver'.i = 0)
    /\ (pc = "solving" /\ ~saturation_vapor_pressure_raises(solver.tbm)) =>
          IterationFollowsRule(
              w_calc_at(solver.tbs, solver.tbm, solver.p_atm))

\* C20: the first iterate is tbs - 2; an iteration with |w_calc - w| < 0.01
\* returns the current iterate, any other moves it by exactly 0.05, down if
\* w_calc > w and up otherwise, and clamps it to [-20, tbs]: every later
\* iterate lies in [-20, tbs] and differs from the one before by at most 0.05
\* unless the clamp applied
SolverStepRule == [][StepRuleAction]_vars

\* two steps down from the first iterate
SolverStepRuleWitness ==
    /\ pc = "solving"
    /\ solver.i = 2
    /\ solver.tbm = solver.tbs - 2 * SCALE - 10000

\* C21: wet_bulb_temperature with w <= 0.0001 returns max(-20, tbs - 15)
\* without an iteration, and with w > 0.0001 it does not take the shortcut
DryAirShortcut ==
    solver.path # "none" =>
        /\ solver.w <= 10 <=> solver.path = "dry"
        /\ solver.path = "dry" =>
              /\ pc = "done"
              /\ solver.i = 0
              /\ solver.tbm = Max(0 - 20 * SCALE, solver.tbs - 15 * SCALE)
              /\ ret.tbm = solver.tbm

\* the shortcut taken at the threshold w = 0.0001
DryAirShortcutWitness ==
    /\ pc = "done"
    /\ op = "wet_bulb_temperature"
    /\ args.w = 10
    /\ args.tbs = 25 * SCALE
    /\ solver.path = "dry"
    /\ ret.tbm = 10 * SCALE

\* C22: wet_bulb_temperature called with a non-numeric tbs, w or p_atm
\* raises nothing and returns tbs - 5
NonNumericGuard ==
    (pc = "done" /\ op = "wet_bulb_temperature, non-numeric") =>
        /\ ~ret.raised
        /\ args.tbs.kind = "num" => ret.tbm = args.tbs.v - 5 * SCALE

\* the general case of calculate_properties_tbs_tbm has returned
GeneralCaseReturned ==
    /\ pc = "done"
    /\ op = "calculate_properties_tbs_tbm"
    /\ Abs(args.tbs - args.tbm) >= 1000

\* C23: the w of the general case of calculate_properties_tbs_tbm is the
\* w_calc the solver computes at the same tbs, tbm and p_atm, unless the
\* solver's guard |factor| < 0.001 applies
SameEnergyBalance ==
    (GeneralCaseReturned /\ Abs(energy_factor(args.tbs, args.tbm)) >= 100) =>
        /\ "general_formula" \in calls
        /\ ret.w = w_calc_at(args.tbs, args.tbm, args.p_atm)

SameEnergyBalanceWitness ==
    /\ GeneralCaseReturned
    /\ args = [tbs |-> 30 * SCALE, tbm |-> 20 * SCALE, p_atm |-> 5400000]
    /\ ret.w > 0
    /\ ret.w = w_calc_at(30 * SCALE, 20 * SCALE, 5400000)

\* a resolver has returned a record
RecordReturned == pc = "done" /\ op \in Resolvers

\* C24: every resolver returns a record of exactly the ten fields, whose
\* tbs, p_atm and second known quantity (tbm, ur or tpo) are the caller's
\* arguments, on the saturation shortcuts as well
InputsEchoed ==
    RecordReturned =>
        /\ DOMAIN ret = {"tbs", "tbm", "ur", "w", "tpo", "h", "v", "p_v",
                         "p_ws", "p_atm"}
        /\ ret.tbs = args.tbs
        /\ ret.p_atm = args.p_atm
        /\ op = "calculate_properties_tbs_tbm" => ret.tbm = args.tbm
        /\ op = "calculate_properties_tbs_ur" => ret.ur = args.ur
        /\ op = "calculate_properties_tbs_tpo" => ret.tpo = args.tpo

\* the saturation shortcut of calculate_properties_tbs_ur taken at ur = 99.95
InputsEchoedWitness ==
    /\ RecordReturned
    /\ op = "calculate_properties_tbs_ur"
    /\ calls = {"saturation_shortcut"}
    /\ args.ur = 9995000
    /\ ret.ur = 9995000
    /\ ret.tbm = args.tbs

AppCall(tab, o) == app.tab = tab /\ op = o

CallerSideValidation ==
    /\ AppCall("tab1", "calculate_properties_tbs_tbm") => args.tbm <= args.tbs
    /\ AppCall("tab3", "calculate_properties_tbs_tpo") => args.tpo <= args.tbs
    /\ (app.tab # "none" /\ app.entered > app.tbs) =>
          app.shown = "error" /\ op = "none" /\ ret = <<>>

CallerSideValidationWitness ==
    /\ app = AppRun("tab1", 25 * SCALE, 25 * SCALE + 10000, "error")
    /\ pc = "done"
    /\ op = "none"

\* C27: dew_point_temperature is non-decreasing in p_v >= 0 (no smaller
\* vapor pressure has a higher dew point than the one returned) and every
\* result lies in [-50, 60]
DewPointReturned == pc = "done" /\ op = "dew_point_temperature"

DewPointMonotone ==
    DewPointReturned =>
        /\ ret.tpo >= 0 - 50 * SCALE
        /\ ret.tpo <= 60 * SCALE
        /\ \A q \in DewPointInputs :
              q <= args.p_v => dew_point_temperature(q) <= ret.tpo

\* C28: for fixed tbs and p_atm the tbm of calculate_properties_tbs_ur is
\* non-decreasing in ur over [0, 100]: no smaller ur gives a higher tbm than
\* the one returned
TbsUrReturned == pc = "done" /\ op = "calculate_properties_tbs_ur"

tbm_at_ur(ur) == calculate_properties_tbs_ur(args.tbs, ur, args.p_atm).tbm

WetBulbIncreasingInUr ==
    (TbsUrReturned /\ args.ur <= 100 * SCALE) =>
        \A ur \in UrInputs : ur <= args.ur => tbm_at_ur(ur) <= ret.tbm

\* C29: for ur in (0, 100), calculate_properties_tbs_tbm called with the tbm
\* that calculate_properties_tbs_ur returned gives the same state back: its
\* ur within 1 percentage point of the original ur, its w within the same
\* relative distance of the original w
fed_back(ulp) ==
    calculate_properties_tbs_tbm(args.tbs, ret.tbm, args.p_atm, ulp)

same_state(r) ==
    /\ Abs(r.ur - args.ur) <= SCALE
    /\ Abs(r.w - ret.w) <= MulDiv(ret.w, SCALE, args.ur) + 1

CrossPathAgreement ==
    (TbsUrReturned /\ args.ur > 0 /\ args.ur < 100 * SCALE) =>
        \A ulp \in UlpOutcomes : same_state(fed_back(ulp))

\* C30: after any sequence of save_current_settings, load_profile,
\* delete_profile and import_profiles calls current_profile is None or the
\* name of a saved profile; load_profile and delete_profile of a name that
\* is not saved return False and change neither the store nor the session
\* values; deleting the current profile sets current_profile to None
CurrentProfileSaved ==
    prefs.current_profile = NoProfile
      \/ prefs.current_profile \in saved_names(prefs)

LoadOrDelete == op' \in {"load_profile", "delete_profile"}

MissingNameRefused ==
    (LoadOrDelete /\ args'.profile_name \notin saved_names(prefs)) =>
        (ret' = [ok |-> FALSE, raised |-> FALSE]
           /\ UNCHANGED <<prefs, session>>)

DeletedCurrentReset ==
    (op' = "delete_profile" /\ args'.profile_name = prefs.current_profile) =>
        (ret'.ok /\ prefs'.current_profile = NoProfile
           /\ args'.profile_name \notin saved_names(prefs'))

ProfileStoreInvariant ==
    /\ []CurrentProfileSaved
    /\ [][MissingNameRefused]_vars
    /\ [][DeletedCurrentReset]_vars

\* the current profile was deleted while another one stays saved
ProfileStoreInvariantWitness ==
    /\ op = "delete_profile"
    /\ ret.ok
    /\ prefs.current_profile = NoProfile
    /\ saved_names(prefs) # {}
    /\ args.profile_name \notin saved_names(prefs)

====
